---- MODULE Spec2Model ----
(***************************************************************************)
(* TradeSmartWS: the streaming connection manager of tradesmartapi-js.     *)
(* One manager instance, the transports (ws WebSocket objects) it has      *)
(* created, its timers, and the frames written to each transport.          *)
(***************************************************************************)
EXTENDS Naturals, Sequences, FiniteSets, TLC

\* ---------------------------------------------------------------- bounds
MaxSockets == 2            \* transports created in one run
MaxSent == 2               \* frames logged per transport (auth included)
MaxReconnectAttempts == 1  \* stands for the 200 of #reconnectAttempts

\* ------------------------------------------------------------- constants
reconnectAttempts == MaxReconnectAttempts

Undefined == "undefined"
Null == "null"
Function == "function"

NoError == ""
NotConnectedMessage == "WebSocket is not connected."
InvalidInstrumentsMessage == "instruments invalid"
TypeError == "TypeError"
SyntaxError == "SyntaxError"

\* Instrument lists the application passes to subscribe
Nifty == [Exchange |-> "NSE", Token |-> "22"]
Option == [Exchange |-> "NFO", Token |-> "35"]
InstrumentLists == { <<>>, << Nifty >>, << Nifty, Option >> }

\* new TradeSmartAPI(uid, ...): the user id goes to the private field #uid;
\* #actid and #susertoken start empty; the object has no public property.
\* `private` holds the fields #uid, #actid, #susertoken.
TradeSmartAPI(uid) ==
  [uid |-> Undefined, actid |-> Undefined, susertoken |-> Undefined,
   private |-> [uid |-> uid, actid |-> "", susertoken |-> ""]]

\* api.setSessionDetails(uid, susertoken): uid becomes a public property,
\* the token and the account id go to private fields
setSessionDetails(this, uid, susertoken) ==
  [this EXCEPT !.uid = uid,
               !.private.susertoken = susertoken,
               !.private.actid = uid]

\* What the application passes to setSessionDetails
UserIds == { "FA0001" }
SessionTokens == { "token" }

\* The api objects handed to the constructor: before and after the session
\* is set
ApiObjects ==
  { TradeSmartAPI("FA0001"),
    setSessionDetails(TradeSmartAPI("FA0001"), "FA0001", "token") }

\* ----------------------------------------------------------- wire frames
\* `${i.Exchange}|${i.Token}`
SubscriptionKey(i) == i.Exchange \o "|" \o i.Token

\* Array.prototype.join("#")
RECURSIVE Join(_)
Join(strings) ==
  IF strings = <<>> THEN ""
  ELSE IF Len(strings) = 1 THEN strings[1]
  ELSE strings[1] \o "#" \o Join(Tail(strings))

\* instruments.map(i => `${i.Exchange}|${i.Token}`).join("#")
subString(instruments) ==
  Join([n \in 1 .. Len(instruments) |-> SubscriptionKey(instruments[n])])

\* JSON.stringify of a property: omitted when its value is undefined
JsonProperty(name, value) ==
  IF value = Undefined THEN "" ELSE ",\"" \o name \o "\":\"" \o value \o "\""

\* JSON.stringify({ t: "c", uid, actid, susertoken })
ConnectFrame(u, a, t) ==
  "{\"t\":\"c\"" \o JsonProperty("uid", u) \o JsonProperty("actid", a)
                 \o JsonProperty("susertoken", t) \o "}"

\* JSON.stringify({ t: "h" })
HeartBeatFrame == "{\"t\":\"h\"}"

\* JSON.stringify({ t: "t", k: subString }), k being the string subString
SubscribeFrame(k) == "{\"t\":\"t\"" \o JsonProperty("k", k) \o "}"

\* Inbound text frames offered by the transport
RawFrames ==
  { "{\"t\":\"tk\",\"lp\":\"101.5\"}",
    "{\"t\":\"om\"}",
    "{\"t\":\"ck\",\"s\":\"OK\"}",
    "not json" }

\* JSON.parse on the frames above: the decoded object, or a SyntaxError
JSONparse(raw) ==
  CASE raw = "{\"t\":\"tk\",\"lp\":\"101.5\"}" ->
         [ok |-> TRUE, value |-> [t |-> "tk", lp |-> "101.5"]]
    [] raw = "{\"t\":\"df\",\"lp\":\"99.0\"}" ->
         [ok |-> TRUE, value |-> [t |-> "df", lp |-> "99.0"]]
    [] raw = "{\"t\":\"om\"}" ->
         [ok |-> TRUE, value |-> [t |-> "om"]]
    [] raw = "{\"t\":\"ck\",\"s\":\"OK\"}" ->
         [ok |-> TRUE, value |-> [t |-> "ck", s |-> "OK"]]
    [] OTHER ->
         [ok |-> FALSE, value |-> [t |-> Undefined]]

DataKinds == { "tk", "tf", "df", "dk" }
OrderKinds == { "om" }

\* ----------------------------------------------------------------- state
VARIABLES
  api,                       \* the TradeSmartAPI object given to the constructor
  credentials,               \* #uid, #actid, #susertoken
  socket,                    \* #socket: 0 is null, else the transport's id
  readyState,                \* readyState of every transport created so far
  promise,                   \* the connect() promise bound to each transport
  microtasks,                \* transports whose finally callback is queued
  concluded,                 \* transports that have read the peer's close frame
  sent,                      \* frames written to the newest transport, in order
  subscribed,                \* every key put in a subscribe frame so far
  socketConnecting,          \* #socketConnecting
  disconnectedManually,      \* #disconnectedManually
  currentReconnectAttempts,  \* #currentReconnectAttempts
  reconnectTimers,           \* pending setTimeout callbacks of #attemptReconnect
  heartBeatInterval,         \* #heartBeatInterval: 0 is null, else an interval id
  intervals,                 \* setInterval timers not yet cleared
  onDataCallback,            \* #onDataCallback
  onOrderCallback,           \* #onOrderCallback
  outcome                    \* what the last subscribe() or onmessage did

connVars == << socket, readyState, promise, microtasks, concluded, sent,
               socketConnecting, disconnectedManually >>
wireVars == << sent, subscribed >>
timerVars == << currentReconnectAttempts, reconnectTimers, heartBeatInterval,
                intervals >>
callbackVars == << onDataCallback, onOrderCallback >>
vars == << api, credentials, connVars, subscribed, timerVars, callbackVars,
          outcome >>

Sockets == 1 .. Len(readyState)

\* outcome of an operation that reports nothing
Idle == [op |-> "none", instruments |-> <<>>, frame |-> "", thrown |-> NoError,
         onData |-> <<>>, onOrder |-> <<>>]

Init ==
  /\ api \in ApiObjects
  /\ credentials = [uid |-> api.uid, actid |-> api.actid,
                    susertoken |-> api.susertoken]
  /\ socket = 0
  /\ readyState = <<>>
  /\ promise = <<>>
  /\ microtasks = {}
  /\ concluded = {}
  /\ sent = <<>>
  /\ subscribed = {}
  /\ socketConnecting = FALSE
  /\ disconnectedManually = FALSE
  /\ currentReconnectAttempts = 0
  /\ reconnectTimers = 0
  /\ heartBeatInterval = 0
  /\ intervals = {}
  /\ onDataCallback = Undefined
  /\ onOrderCallback = Undefined
  /\ outcome = Idle

\* ------------------------------------------------------- private methods
\* connect() without the in-flight test: every call creates a transport
connectUnguarded ==
  /\ socketConnecting' = TRUE
  /\ disconnectedManually' = FALSE
  /\ readyState' = Append(readyState, "CONNECTING")
  /\ promise' = Append(promise, "pending")
  /\ sent' = <<>>
  /\ socket' = Len(readyState) + 1
  /\ UNCHANGED << microtasks, concluded >>

\* connect(): returns at once while a connect is in flight, else creates a
\* transport and installs the handlers on it.
connect ==
  IF socketConnecting
  THEN UNCHANGED connVars
  ELSE /\ socketConnecting' = TRUE
       /\ disconnectedManually' = FALSE
       /\ readyState' = Append(readyState, "CONNECTING")
       /\ promise' = Append(promise, "pending")
       /\ sent' = <<>>
       /\ socket' = Len(readyState) + 1
       /\ UNCHANGED << microtasks, concluded >>

\* #attemptReconnect() comparing with <= : one attempt too many
attemptReconnectOffByOne ==
  IF currentReconnectAttempts <= reconnectAttempts
  THEN /\ currentReconnectAttempts' = currentReconnectAttempts + 1
       /\ reconnectTimers' = reconnectTimers + 1
  ELSE UNCHANGED << currentReconnectAttempts, reconnectTimers >>

\* #attemptReconnect()
attemptReconnect ==
  IF currentReconnectAttempts < reconnectAttempts
  THEN /\ currentReconnectAttempts' = currentReconnectAttempts + 1
       /\ reconnectTimers' = reconnectTimers + 1
  ELSE UNCHANGED << currentReconnectAttempts, reconnectTimers >>

\* #setHeartBeat(): a new interval, whatever #heartBeatInterval held
setHeartBeat(id) ==
  /\ heartBeatInterval' = id
  /\ intervals' = intervals \cup { id }

\* #clearHeartBeat()
clearHeartBeat ==
  IF heartBeatInterval # 0
  THEN /\ intervals' = intervals \ { heartBeatInterval }
       /\ heartBeatInterval' = 0
  ELSE UNCHANGED << heartBeatInterval, intervals >>

\* WebSocket.close(): a transport not yet closed starts closing
WebSocketClose(rs) == IF rs \in { "CONNECTING", "OPEN" } THEN "CLOSING" ELSE rs

\* resolve() or reject() in a handler of transport s: the promise settles and
\* its finally callback is queued as a microtask; the flag is not touched yet
Settle(s, how) ==
  IF promise[s] = "pending"
  THEN /\ promise' = [promise EXCEPT ![s] = how]
       /\ microtasks' = microtasks \cup { s }
  ELSE UNCHANGED << promise, microtasks >>

\* a finally callback that leaves the flag set
finallyCallbackSkipped == UNCHANGED socketConnecting

\* .finally(() => { this.#socketConnecting = false; })
finallyCallback == socketConnecting' = FALSE

\* Transport s has opened and still dispatches the frames it reads: after a
\* local close() until the close event, never after the peer's close frame
Receives(s) ==
  /\ readyState[s] \in { "OPEN", "CLOSING" }
  /\ promise[s] = "resolved"
  /\ s \notin concluded

\* this.#socket && this.#socket.readyState === WebSocket.OPEN
IsOpen == socket # 0 /\ readyState[socket] = "OPEN"

\* this.#socket.send(frame); #socket is null or the newest transport
Send(frame) == sent' = Append(sent, frame)

\* The keys of an instrument list
KeysOf(instruments) ==
  { SubscriptionKey(instruments[n]) : n \in 1 .. Len(instruments) }

\* ---------------------------------------------------------- caller's API
\* Application code runs in turns of its own, in callbacks of onmessage, and
\* in process.nextTick callbacks, which come before the microtask queue: every
\* call below can be made with a finally callback queued.
\* connect() called by the application
Connect ==
  /\ socketConnecting \/ Len(readyState) < MaxSockets
  /\ connect
  /\ outcome' = Idle
  /\ UNCHANGED << api, credentials, subscribed, timerVars, callbackVars >>

\* disconnect()
Disconnect ==
  /\ IF socket # 0
     THEN /\ disconnectedManually' = TRUE
          /\ clearHeartBeat
          /\ readyState' = [readyState EXCEPT ![socket] = WebSocketClose(@)]
          /\ socket' = 0
     ELSE UNCHANGED << disconnectedManually, heartBeatInterval, intervals,
                       readyState, socket >>
  /\ outcome' = Idle
  /\ UNCHANGED << api, credentials, promise, microtasks, concluded, wireVars,
                  socketConnecting, currentReconnectAttempts, reconnectTimers,
                  callbackVars >>

\* subscribe(instruments) testing the list before the connection
subscribeChecksListFirst(instruments) ==
  LET report == [Idle EXCEPT !.op = "subscribe", !.instruments = instruments]
  IN  IF instruments = <<>>
      THEN /\ outcome' = [report EXCEPT !.thrown = InvalidInstrumentsMessage]
           /\ UNCHANGED wireVars
      ELSE IF ~IsOpen
      THEN /\ outcome' = [report EXCEPT !.thrown = NotConnectedMessage]
           /\ UNCHANGED wireVars
      ELSE /\ outcome' = report
           /\ Send(SubscribeFrame(subString(instruments)))
           /\ subscribed' = subscribed \cup KeysOf(instruments)

\* The body of subscribe(instruments): the error it throws, or the frame sent
subscribe(instruments) ==
  LET report == [Idle EXCEPT !.op = "subscribe", !.instruments = instruments]
  IN  IF ~IsOpen
      THEN /\ outcome' = [report EXCEPT !.thrown = NotConnectedMessage]
           /\ UNCHANGED wireVars
      ELSE IF instruments = <<>>
      THEN /\ outcome' = [report EXCEPT !.thrown = InvalidInstrumentsMessage]
           /\ UNCHANGED wireVars
      ELSE /\ outcome' = report
           /\ Send(SubscribeFrame(subString(instruments)))
           /\ subscribed' = subscribed \cup KeysOf(instruments)

\* subscribe(instruments) called by the application
Subscribe(instruments) ==
  /\ IsOpen => Len(sent) < MaxSent
  /\ subscribe(instruments)
  /\ UNCHANGED << api, credentials, socket, readyState, promise, microtasks,
                  concluded, socketConnecting, disconnectedManually, timerVars,
                  callbackVars >>

\* onData(callback)
OnData(callback) ==
  /\ onDataCallback' = callback
  /\ outcome' = Idle
  /\ UNCHANGED << api, credentials, connVars, subscribed, timerVars,
                  onOrderCallback >>

\* onOrder(callback)
OnOrder(callback) ==
  /\ onOrderCallback' = callback
  /\ outcome' = Idle
  /\ UNCHANGED << api, credentials, connVars, subscribed, timerVars,
                  onDataCallback >>

\* api.setSessionDetails(uid, susertoken) called by the application after the
\* manager was constructed: the manager keeps what its constructor copied
SetSessionDetails(uid, susertoken) ==
  /\ api' = setSessionDetails(api, uid, susertoken)
  /\ outcome' = Idle
  /\ UNCHANGED << credentials, connVars, subscribed, timerVars, callbackVars >>

\* ------------------------------------------------------ transport events
\* socket.onopen without the reset of the reconnect counter
onopenKeepsCounter(s) ==
  /\ UNCHANGED currentReconnectAttempts
  /\ setHeartBeat(s)
  /\ Send(ConnectFrame(credentials.uid, credentials.actid, credentials.susertoken))
  /\ Settle(s, "resolved")

\* socket.onopen
onopen(s) ==
  /\ currentReconnectAttempts' = 0
  /\ setHeartBeat(s)
  /\ Send(ConnectFrame(credentials.uid, credentials.actid, credentials.susertoken))
  /\ Settle(s, "resolved")

\* socket.onerror
onerror(s) == Settle(s, "rejected")

\* socket.onclose
onclose ==
  /\ clearHeartBeat
  /\ IF ~disconnectedManually
     THEN attemptReconnect
     ELSE UNCHANGED << currentReconnectAttempts, reconnectTimers >>

\* socket.onmessage
onmessage(raw) ==
  LET parsed == JSONparse(raw)
      data == parsed.value
      report == [Idle EXCEPT !.op = "onmessage", !.frame = raw]
  IN  IF ~parsed.ok
      THEN outcome' = [report EXCEPT !.thrown = SyntaxError]
      ELSE IF data.t \in DataKinds /\ onDataCallback # Null
      THEN IF onDataCallback = Function
           THEN outcome' = [report EXCEPT !.onData = << data >>]
           ELSE outcome' = [report EXCEPT !.thrown = TypeError]
      ELSE IF data.t \in OrderKinds /\ onOrderCallback = Function
      THEN outcome' = [report EXCEPT !.onOrder = << data >>]
      ELSE outcome' = report

\* The handshake of transport s completes; a transport still connecting is
\* the one #socket holds. The event is a turn of its own.
TransportOpen(s) ==
  /\ microtasks = {}
  /\ readyState[s] = "CONNECTING"
  /\ socket = s
  /\ readyState' = [readyState EXCEPT ![s] = "OPEN"]
  /\ onopen(s)
  /\ outcome' = Idle
  /\ UNCHANGED << api, credentials, socket, concluded, subscribed,
                  socketConnecting, disconnectedManually, reconnectTimers,
                  callbackVars >>

\* The handshake of transport s fails, or was aborted by close()
TransportError(s) ==
  /\ microtasks = {}
  /\ promise[s] = "pending"
  /\ readyState[s] \in { "CONNECTING", "CLOSING" }
  /\ readyState' = [readyState EXCEPT ![s] = "CLOSING"]
  /\ onerror(s)
  /\ outcome' = Idle
  /\ UNCHANGED << api, credentials, socket, concluded, wireVars,
                  socketConnecting, disconnectedManually, timerVars,
                  callbackVars >>

\* Transport s reads the close frame of the peer: it answers and is CLOSING
\* until the connection ends; no handler of the manager runs. The frame may
\* come in the segment that completed the handshake.
TransportCloseFrame(s) ==
  /\ microtasks \subseteq { s }
  /\ readyState[s] = "OPEN"
  /\ readyState' = [readyState EXCEPT ![s] = "CLOSING"]
  /\ concluded' = concluded \cup { s }
  /\ outcome' = Idle
  /\ UNCHANGED << api, credentials, socket, promise, microtasks, wireVars,
                  socketConnecting, disconnectedManually, timerVars,
                  callbackVars >>

\* The close event of transport s, in a turn with no microtask of another
\* transport queued. After a failed handshake it comes with the error event,
\* before the finally callback, or a turn later, after it; for an opened
\* transport it comes when the connection ends, lost while OPEN or after a
\* close handshake.
TransportClose(s) ==
  /\ \/ /\ promise[s] = "rejected"
        /\ readyState[s] = "CLOSING"
        /\ microtasks \subseteq { s }
     \/ /\ promise[s] = "resolved"
        /\ readyState[s] \in { "OPEN", "CLOSING" }
        /\ microtasks = {}
  /\ readyState' = [readyState EXCEPT ![s] = "CLOSED"]
  /\ concluded' = concluded \ { s }
  /\ onclose
  /\ outcome' = Idle
  /\ UNCHANGED << api, credentials, socket, promise, microtasks, wireVars,
                  socketConnecting, disconnectedManually, callbackVars >>

\* A text frame arrives on transport s: in a turn of its own, or in the
\* segment that completed the handshake of s
TransportMessage(s, raw) ==
  /\ microtasks \subseteq { s }
  /\ Receives(s)
  /\ onmessage(raw)
  /\ UNCHANGED << api, credentials, connVars, subscribed, timerVars,
                  callbackVars >>

\* The microtask queue runs the finally callback of transport s, whatever the
\* state of the transport
Finally(s) ==
  /\ s \in microtasks
  /\ microtasks' = microtasks \ { s }
  /\ finallyCallback
  /\ outcome' = Idle
  /\ UNCHANGED << api, credentials, socket, readyState, promise, concluded,
                  wireVars, disconnectedManually, timerVars, callbackVars >>

\* ----------------------------------------------------------------- timers
\* A timer callback that never calls connect()
reconnectCallbackSkipped == UNCHANGED connVars

\* The setTimeout callback of #attemptReconnect
reconnectCallback == connect

\* A reconnect timer fires
reconnectTimer ==
  /\ microtasks = {}
  /\ reconnectTimers > 0
  /\ reconnectTimers' = reconnectTimers - 1
  /\ reconnectCallback
  /\ outcome' = Idle
  /\ UNCHANGED << api, credentials, subscribed, currentReconnectAttempts,
                  heartBeatInterval, intervals, callbackVars >>

ReconnectTimerFire ==
  /\ socketConnecting \/ Len(readyState) < MaxSockets
  /\ reconnectTimer

\* A heartbeat callback that tests #socket but not its readyState
heartBeatCallbackUnguarded ==
  IF socket # 0 /\ Len(sent) < MaxSent
  THEN Send(HeartBeatFrame)
  ELSE UNCHANGED sent

\* The setInterval callback of #setHeartBeat
heartBeatCallback ==
  IF IsOpen
  THEN Send(HeartBeatFrame)
  ELSE UNCHANGED sent

\* Interval i ticks
HeartBeatTick(i) ==
  /\ microtasks = {}
  /\ i \in intervals
  /\ IsOpen => Len(sent) < MaxSent
  /\ heartBeatCallback
  /\ outcome' = Idle
  /\ UNCHANGED << api, credentials, socket, readyState, promise, microtasks,
                  concluded, subscribed, socketConnecting, disconnectedManually,
                  timerVars, callbackVars >>

\* ---------------------------------------------------------- specification
Next ==
  \/ Connect
  \/ Disconnect
  \/ \E instruments \in InstrumentLists : Subscribe(instruments)
  \/ \E callback \in { Null, Function } : OnData(callback)
  \/ OnOrder(Function)
  \/ \E uid \in UserIds, susertoken \in SessionTokens :
       SetSessionDetails(uid, susertoken)
  \/ \E s \in Sockets : TransportOpen(s)
  \/ \E s \in Sockets : TransportError(s)
  \/ \E s \in Sockets : TransportCloseFrame(s)
  \/ \E s \in Sockets : TransportClose(s)
  \/ \E s \in Sockets, raw \in RawFrames : TransportMessage(s, raw)
  \/ \E s \in Sockets : Finally(s)
  \/ ReconnectTimerFire
  \/ \E i \in Sockets : HeartBeatTick(i)

Spec == Init /\ [][Next]_vars

\* The manager of an application that does not touch the api object once the
\* manager is constructed
NextSessionFixed ==
  \/ Connect
  \/ Disconnect
  \/ \E instruments \in InstrumentLists : Subscribe(instruments)
  \/ \E callback \in { Null, Function } : OnData(callback)
  \/ OnOrder(Function)
  \/ \E s \in Sockets : TransportOpen(s)
  \/ \E s \in Sockets : TransportError(s)
  \/ \E s \in Sockets : TransportCloseFrame(s)
  \/ \E s \in Sockets : TransportClose(s)
  \/ \E s \in Sockets, raw \in RawFrames : TransportMessage(s, raw)
  \/ \E s \in Sockets : Finally(s)
  \/ ReconnectTimerFire
  \/ \E i \in Sockets : HeartBeatTick(i)

SpecSessionFixed == Init /\ [][NextSessionFixed]_vars

\* The manager with transports and timers only: no inbound frames, no
\* callbacks, no subscriptions. The event loop runs a due timer.
NextReconnect ==
  \/ Connect
  \/ Disconnect
  \/ \E s \in Sockets : TransportOpen(s)
  \/ \E s \in Sockets : TransportError(s)
  \/ \E s \in Sockets : TransportCloseFrame(s)
  \/ \E s \in Sockets : TransportClose(s)
  \/ \E s \in Sockets : Finally(s)
  \/ ReconnectTimerFire
  \/ \E i \in Sockets : HeartBeatTick(i)

\* the microtask queue is always run, and so is a due timer
SpecReconnect ==
  /\ Init
  /\ [][NextReconnect]_vars
  /\ WF_vars(\E s \in Sockets : Finally(s))
  /\ WF_vars(ReconnectTimerFire)

\* A transport that never opens, and an application that calls connect() once
FirstConnect == Len(readyState) = 0 /\ Connect

NextAlwaysFail ==
  \/ FirstConnect
  \/ \E s \in Sockets : TransportError(s)
  \/ \E s \in Sockets : TransportClose(s)
  \/ \E s \in Sockets : Finally(s)
  \/ reconnectTimer
  \/ \E instruments \in InstrumentLists : Subscribe(instruments)
  \/ \E callback \in { Null, Function } : OnData(callback)
  \/ OnOrder(Function)

SpecAlwaysFail == Init /\ [][NextAlwaysFail]_vars

\* An application that calls connect() once, subscribes while open, and then
\* leaves the connection to the manager
NextUnattended ==
  \/ FirstConnect
  \/ \E instruments \in InstrumentLists : Subscribe(instruments)
  \/ \E s \in Sockets : TransportOpen(s)
  \/ \E s \in Sockets : TransportError(s)
  \/ \E s \in Sockets : TransportCloseFrame(s)
  \/ \E s \in Sockets : TransportClose(s)
  \/ \E s \in Sockets : Finally(s)
  \/ ReconnectTimerFire
  \/ \E i \in Sockets : HeartBeatTick(i)

SpecUnattended == Init /\ [][NextUnattended]_vars

\* The same application, with an event loop that runs a due timer
SpecUnattendedFair ==
  /\ SpecUnattended
  /\ WF_vars(\E s \in Sockets : Finally(s))
  /\ WF_vars(ReconnectTimerFire)

TypeOK ==
  /\ socket \in { 0, Len(readyState) }
  /\ Len(readyState) <= MaxSockets
  /\ Len(sent) <= MaxSent
  /\ disconnectedManually => socket = 0
  /\ \A s \in Sockets : readyState[s] = "CONNECTING" => socket = s
  /\ microtasks \subseteq Sockets
  /\ Cardinality(microtasks) <= 1
  /\ microtasks # {} => socketConnecting
  /\ \A s \in concluded : readyState[s] = "CLOSING" /\ promise[s] = "resolved"

\* ------------------------------------------------------------ properties
\* Everything of the manager but the report of the last operation
managerVars == << api, credentials, connVars, subscribed, timerVars, callbackVars >>

\* The orders in which a set of keys can be written
Orderings(keys) ==
  { q \in [1 .. Cardinality(keys) -> keys] :
      \A m, n \in 1 .. Cardinality(keys) : m # n => q[m] # q[n] }

\* The subscribe frames that carry each key of a set exactly once
ReplayFrames(keys) == { SubscribeFrame(Join(q)) : q \in Orderings(keys) }

\* C1: when a transport opens after an unexpected close (a reconnect attempt
\* was scheduled, no manual disconnect, every other transport closed) and keys
\* have been subscribed before, the open handler itself writes a subscribe
\* frame to the new transport whose key string is the '#'-join of all keys
\* subscribed so far, each exactly once.
C1_ReplayOnReconnect ==
  [][\A s \in Sockets :
       ( /\ readyState[s] = "CONNECTING"
         /\ readyState'[s] = "OPEN"
         /\ currentReconnectAttempts > 0
         /\ ~disconnectedManually
         /\ \A r \in Sockets \ { s } : readyState[r] = "CLOSED"
         /\ subscribed # {} )
       => \E n \in 1 .. Len(sent') : sent'[n] \in ReplayFrames(subscribed)]_vars

\* C2: after disconnect() (the manual flag is set and the application has not
\* called connect() since) a pending reconnect timer that fires opens no
\* transport, and no heartbeat frame is written.
C2_NoReconnectAfterDisconnect ==
  [][disconnectedManually =>
       /\ reconnectTimers' < reconnectTimers => Len(readyState') = Len(readyState)
       /\ sent' # Append(sent, HeartBeatFrame)]_vars

\* C3: an unexpected close with the counter below the maximum arms a reconnect
\* timer; while the closed transport is still the manager's and a timer is
\* armed, a new transport is eventually created; and a transport that opens
\* leaves the manager open with its heartbeat armed and the counter reset.
ReconnectPending(n) ==
  /\ Len(readyState) = n
  /\ n < MaxSockets
  /\ socket # 0
  /\ readyState[socket] = "CLOSED"
  /\ reconnectTimers > 0

C3_ReconnectsByItself ==
  /\ [][\A s \in Sockets :
          ( /\ readyState[s] # "CLOSED"
            /\ readyState'[s] = "CLOSED"
            /\ ~disconnectedManually
            /\ currentReconnectAttempts < reconnectAttempts )
          => reconnectTimers' = reconnectTimers + 1]_vars
  /\ \A n \in 1 .. MaxSockets : ReconnectPending(n) ~> (Len(readyState) > n)
  /\ [][\A s \in Sockets :
          (readyState[s] = "CONNECTING" /\ readyState'[s] = "OPEN")
          => /\ socket' = s
             /\ heartBeatInterval' # 0
             /\ heartBeatInterval' \in intervals'
             /\ currentReconnectAttempts' = 0]_vars

\* C3 witness: the first transport closed unexpectedly and the second one,
\* created afterwards, is open with the heartbeat armed.
C3_Witness ==
  /\ Len(readyState) = 2
  /\ readyState[1] = "CLOSED"
  /\ ~disconnectedManually
  /\ IsOpen
  /\ socket = 2
  /\ heartBeatInterval = 2
  /\ reconnectTimers = 0

\* C4: with a transport that never opens, no more than reconnectAttempts
\* transports follow the first one, and when nothing is pending any more
\* exactly reconnectAttempts automatic attempts have been made.
Quiescent ==
  /\ Len(readyState) > 0
  /\ \A s \in Sockets : readyState[s] = "CLOSED"
  /\ reconnectTimers = 0

C4_ExactlyMaxAttempts ==
  /\ Len(readyState) <= 1 + reconnectAttempts
  /\ Quiescent => Len(readyState) = 1 + reconnectAttempts

\* C4 witness: every transport failed and the attempts are used up.
C4_Witness ==
  /\ Quiescent
  /\ Len(readyState) = 1 + reconnectAttempts
  /\ currentReconnectAttempts = reconnectAttempts

\* C5: the close event of a transport that disconnect() closed while it was
\* open schedules no reconnect.
C5_ManualCloseNeverReconnects ==
  [][\A s \in Sockets :
       ( /\ readyState[s] = "CLOSING"
         /\ promise[s] = "resolved"
         /\ s \notin concluded
         /\ readyState'[s] = "CLOSED" )
       => /\ reconnectTimers' = reconnectTimers
          /\ currentReconnectAttempts' = currentReconnectAttempts]_vars

\* C6: at most one heartbeat timer is armed at any time, and exactly one while
\* the manager is open.
C6_OneHeartBeatTimer ==
  /\ Cardinality(intervals) <= 1
  /\ IsOpen => Cardinality(intervals) = 1

\* C7: a heartbeat frame is written only while the manager's transport is
\* open, and the step that writes it leaves the transport as it is.
C7_HeartBeatOnlyWhileOpen ==
  [][sent' = Append(sent, HeartBeatFrame)
       => IsOpen /\ UNCHANGED << socket, readyState >>]_vars

\* C7 witness: a heartbeat frame was written, the transport has closed since,
\* and an interval timer is still ticking.
C7_Witness ==
  /\ \E n \in 1 .. Len(sent) : sent[n] = HeartBeatFrame
  /\ socket # 0
  /\ readyState[socket] = "CLOSED"
  /\ intervals # {}

\* C8 as claimed: subscribe([]) throws the invalid-instruments error, a
\* subscribe of a non-empty list while not open throws the not-connected
\* error, and both leave the manager as it was.
C8_SubscribeErrorsAsClaimed ==
  [][outcome'.op = "subscribe" =>
       /\ outcome'.instruments = <<>> =>
            outcome'.thrown = InvalidInstrumentsMessage /\ UNCHANGED managerVars
       /\ (outcome'.instruments # <<>> /\ ~IsOpen) =>
            outcome'.thrown = NotConnectedMessage /\ UNCHANGED managerVars]_vars

\* C8 amended: a subscribe of any list, the empty one included, while not open
\* throws the not-connected error; subscribe([]) while open throws the
\* invalid-instruments error; both leave the manager as it was.
C8_SubscribeErrors ==
  [][outcome'.op = "subscribe" =>
       /\ ~IsOpen =>
            outcome'.thrown = NotConnectedMessage /\ UNCHANGED managerVars
       /\ (IsOpen /\ outcome'.instruments = <<>>) =>
            outcome'.thrown = InvalidInstrumentsMessage /\ UNCHANGED managerVars]_vars

\* C8 witness: subscribe([]) on a manager that is not open threw the
\* not-connected error.
C8_Witness ==
  /\ outcome.op = "subscribe"
  /\ outcome.instruments = <<>>
  /\ ~IsOpen
  /\ outcome.thrown = NotConnectedMessage

\* C9: a decodable inbound frame reaches the data callback exactly when its
\* kind is a market-data kind and a data callback is registered, the order
\* callback exactly when its kind is the order kind and an order callback is
\* registered, and the handler throws nothing.
C9_RoutedByKind ==
  (outcome.op = "onmessage" /\ JSONparse(outcome.frame).ok) =>
    LET data == JSONparse(outcome.frame).value
    IN  /\ outcome.thrown = NoError
        /\ outcome.onData =
             IF data.t \in DataKinds /\ onDataCallback = Function
             THEN << data >> ELSE <<>>
        /\ outcome.onOrder =
             IF data.t \in OrderKinds /\ onOrderCallback = Function
             THEN << data >> ELSE <<>>

\* C10: an inbound frame that does not decode invokes no callback and throws
\* nothing out of the message handler.
C10_MalformedFrameDiscarded ==
  (outcome.op = "onmessage" /\ ~JSONparse(outcome.frame).ok) =>
    /\ outcome.thrown = NoError
    /\ outcome.onData = <<>>
    /\ outcome.onOrder = <<>>

\* C11: a subscribe() that throws nothing writes exactly one frame, and that
\* frame is a subscribe frame whose key string is the '#'-join of every key
\* subscribed so far (the keys of this call and of all earlier calls), each
\* exactly once.
C11_SubscribeSendsRegistry ==
  [][(outcome'.op = "subscribe" /\ outcome'.thrown = NoError) =>
       /\ subscribed' = subscribed \cup KeysOf(outcome'.instruments)
       /\ \E frame \in ReplayFrames(subscribed') : sent' = Append(sent, frame)]_vars

\* C12: the first frame written to every transport is the auth frame, and
\* once the api object holds a session its uid, actid and susertoken are the
\* user id, account id and session token the api object holds.
C12_AuthFrameCarriesSession ==
  sent # <<>> =>
    /\ \E u, a, t \in { Undefined, "", "FA0001", "token" } :
         sent[1] = ConnectFrame(u, a, t)
    /\ api.private.susertoken # "" =>
         sent[1] = ConnectFrame(api.private.uid, api.private.actid,
                                api.private.susertoken)

\* C13: at every moment at most one transport created by the manager is not
\* closed, whatever the order of connect(), disconnect(), timer firings and
\* transport events.
C13_AtMostOneLiveTransport ==
  Cardinality({ s \in Sockets : readyState[s] # "CLOSED" }) <= 1

\* A connect is in flight: its transport has neither opened nor failed yet
InFlight == \E s \in Sockets : readyState[s] = "CONNECTING"

\* C14: the in-flight flag is set whenever a connect is in flight; while it
\* is set no step creates a second transport, and a reconnect timer that fires
\* then only consumes itself: the connection, the frames sent, the counters,
\* the heartbeat and the callbacks stay as they are.
C14_ConnectInFlightIsNoOp ==
  /\ [](InFlight => socketConnecting)
  /\ [][socketConnecting =>
          /\ Len(readyState') = Len(readyState)
          /\ reconnectTimers' < reconnectTimers =>
               UNCHANGED << api, credentials, connVars, subscribed,
                            currentReconnectAttempts, heartBeatInterval,
                            intervals, callbackVars >>]_vars

\* a reconnect timer is pending while a connect is in flight
C14_Witness == InFlight /\ socketConnecting /\ reconnectTimers > 0

\* C15: a connect() whose transport fails before opening is rejected by the
\* error event, which queues the release of the in-flight flag and schedules
\* no reconnect; a transport never reaches CLOSED with its promise pending;
\* the queued callback releases the flag; the flag is set only while a
\* transport still owes its open or error event or the release is queued, so
\* it cannot stay set for ever; no timer fires with the release queued, and
\* with the flag released a reconnect timer that fires creates a transport;
\* only a step that closes a transport schedules a reconnect.
C15_FailedConnectReleasesFlag ==
  /\ [](\A s \in Sockets : readyState[s] = "CLOSED" => promise[s] # "pending")
  /\ [](socketConnecting <=>
          \/ microtasks # {}
          \/ \E s \in Sockets : /\ promise[s] = "pending"
                                /\ readyState[s] \in { "CONNECTING", "CLOSING" })
  /\ [][\A s \in Sockets :
          (promise[s] = "pending" /\ promise'[s] = "rejected") =>
            /\ s \in microtasks'
            /\ UNCHANGED << currentReconnectAttempts, reconnectTimers >>]_vars
  /\ [][\A s \in Sockets :
          (s \in microtasks /\ s \notin microtasks') => ~socketConnecting']_vars
  /\ [][reconnectTimers' < reconnectTimers => microtasks = {}]_vars
  /\ [][(~socketConnecting /\ reconnectTimers' < reconnectTimers) =>
          /\ Len(readyState') = Len(readyState) + 1
          /\ socketConnecting']_vars
  /\ [][reconnectTimers' > reconnectTimers =>
          \E s \in Sockets : /\ readyState[s] # "CLOSED"
                             /\ readyState'[s] = "CLOSED"]_vars

\* a connect has failed: rejected, transport closed, flag released, and the
\* reconnect scheduled by the close event is pending
C15_Witness ==
  /\ ~socketConnecting
  /\ microtasks = {}
  /\ reconnectTimers > 0
  /\ \E s \in Sockets : promise[s] = "rejected" /\ readyState[s] = "CLOSED"

\* A step in which a transport opens
Opens ==
  \E s \in Sockets : readyState[s] = "CONNECTING" /\ readyState'[s] = "OPEN"

\* C16 as claimed, for an application that calls connect() once: the counter
\* stays within 0 .. maximum, and once it equals the maximum and the attempt
\* scheduled last has run, no reconnect attempt is ever pending again (no
\* connect() of the application succeeds afterwards, since there is none).
C16_CounterAsClaimed ==
  /\ [](currentReconnectAttempts \in 0 .. reconnectAttempts)
  /\ []((currentReconnectAttempts = reconnectAttempts /\ reconnectTimers = 0)
          => [](reconnectTimers = 0))

\* C16: the counter stays within 0 .. maximum; every transport open sets it to
\* 0, whoever started the connect; it changes otherwise only by one, in the
\* step that schedules one reconnect attempt; every scheduled attempt
\* increments it; and while it equals the maximum no attempt is scheduled.
C16_CounterBounded ==
  /\ [](currentReconnectAttempts \in 0 .. reconnectAttempts)
  /\ [][Opens => currentReconnectAttempts' = 0]_vars
  /\ [][currentReconnectAttempts' # currentReconnectAttempts =>
          \/ Opens /\ currentReconnectAttempts' = 0
          \/ /\ currentReconnectAttempts' = currentReconnectAttempts + 1
             /\ reconnectTimers' = reconnectTimers + 1]_vars
  /\ [][reconnectTimers' > reconnectTimers =>
          /\ reconnectTimers' = reconnectTimers + 1
          /\ currentReconnectAttempts' = currentReconnectAttempts + 1]_vars
  /\ [][currentReconnectAttempts = reconnectAttempts =>
          reconnectTimers' <= reconnectTimers]_vars

\* every attempt allowed has been scheduled and has failed: the last close
\* found the counter at the maximum and scheduled nothing
C16_Witness ==
  /\ currentReconnectAttempts = reconnectAttempts
  /\ reconnectTimers = 0
  /\ ~disconnectedManually
  /\ Len(readyState) > reconnectAttempts
  /\ \A s \in Sockets : readyState[s] = "CLOSED"

====
